---- MODULE Spec2Model ----
(***************************************************************************)
(* The chirpy HTTP server: users, chirps, JWT access tokens and opaque     *)
(* refresh tokens.  The repository holds several snapshots of the server,  *)
(* each with its own main and route table: Spec is the server with refresh *)
(* tokens, SpecMain the server of main.go, SpecLegacy the server without   *)
(* authentication.  A handler is an operator from the request and the      *)
(* current store to the response it writes and the store it leaves; the    *)
(* action of a route applies it.  Time is in seconds.  Identifiers drawn   *)
(* at random (uuids, refresh tokens) are drawn fresh from counters.        *)
(***************************************************************************)
EXTENDS Integers, Sequences, FiniteSets, TLC

\* ------------------------------------------------------------ bounds
MaxUsers == 2
MaxRefresh == 2
MaxChirps == 1
MaxIssued == 2
MaxHits == 2
MaxFaults == 1
MaxTicks == 1
MaxLogins == 2
MaxApps == 3
MaxCounted == 3

\* ------------------------------------------------------------ program constants
Hour == 3600
RefreshDays == 60
DaySeconds == 86400
maxChirpLength == 140

RefreshWindow == RefreshDays * DaySeconds

Emails == {"a@x", "b@x"}
Passwords == {"pw1", "pw2"}
Salts == {"s"}
Registered == {"pw1"}
Secrets == {"k1", "k2"}
ServerSecrets == {"k1"}
Platforms == {"dev", "prod"}

\* what may go wrong inside a request: a body that does not decode, a failing
\* password hash, a failing store call (lookup; insert, update or delete), a
\* failing token mint (the access token, the random refresh token)
FaultKinds == {"decode", "hash", "lookup", "write", "jwt", "rand"}
\* the faults a handler that makes the calls in K can meet
Faults(K) == {f \in SUBSET (K \cap FaultKinds) : Cardinality(f) <= MaxFaults}

VARIABLES
    platform,         \* apiConfig.platform
    jwtSecret,        \* apiConfig.jwtSecret
    fileserverHits,   \* apiConfig.fileserverHits
    now,              \* the wall clock
    ticks,            \* how often the clock has been read to advance
    users,            \* table users
    refresh_tokens,   \* table refresh_tokens
    chirps,           \* table chirps
    nextId,           \* fresh uuids and fresh refresh tokens drawn so far
    issued,           \* access tokens that responses have handed to clients
    revoked,          \* refresh tokens whose revocation a 204 has acknowledged
    login,            \* the logins in progress: where each stands, its locals
    phase,            \* where main stands: "main", "serving" or "exited"
    env,              \* the environment of the process: PLATFORM, JWT_SECRET
    chirpy_red,       \* ids of the users whose membership is set (column of users)
    polkaKey,         \* apiConfig.polkaKey
    app,              \* the /app requests in progress: where each stands, its local
    handled           \* the /app requests counted since the last reset

vars == <<platform, jwtSecret, fileserverHits, now, ticks, users,
          refresh_tokens, chirps, nextId, issued, revoked, login,
          phase, env, chirpy_red, polkaKey,
                   app, handled>>

\* ------------------------------------------------------------ tokens and headers
\* A token string.  kind "jwt": a signed assertion (iss, sub, iat, exp) under
\* key; kind "opaque": the id-th random refresh token; "empty": the string "";
\* "garbage": any other string.
Tok(kind, sub, iat, exp, key, id) ==
    [kind |-> kind, sub |-> sub, iat |-> iat, exp |-> exp, key |-> key, id |-> id]
EmptyTok == Tok("empty", 0, 0, 0, "", 0)
GarbageTok == Tok("garbage", 0, 0, 0, "", 0)
Opaque(id) == Tok("opaque", 0, 0, 0, "", id)

\* The Authorization header of a request.
NoHeader == [scheme |-> "none", tok |-> EmptyTok]
Bearer(t) == [scheme |-> "Bearer", tok |-> t]
Basic(t) == [scheme |-> "Basic", tok |-> t]

\* auth.GetBearerToken
GetBearerToken(h) ==
    IF h.scheme = "Bearer" /\ h.tok.kind # "empty"
    THEN [err |-> "", tok |-> h.tok]
    ELSE [err |-> "MissingToken", tok |-> EmptyTok]

\* auth.MakeJWT
MakeJWT(userID, secret, ttl, at, fail) ==
    IF fail THEN [err |-> TRUE, tok |-> EmptyTok]
    ELSE [err |-> FALSE, tok |-> Tok("jwt", userID, at, at + ttl, secret, 0)]

\* a variant that honours a token through the very instant of its expiry
ValidateJWTLate(t, secret, at) ==
    IF t.kind # "jwt" THEN [err |-> "Malformed", sub |-> 0]
    ELSE IF t.key # secret THEN [err |-> "BadSignature", sub |-> 0]
    ELSE IF at > t.exp THEN [err |-> "Expired", sub |-> 0]
    ELSE [err |-> "", sub |-> t.sub]

\* auth.ValidateJWT
ValidateJWT(t, secret, at) ==
    IF t.kind # "jwt" THEN [err |-> "Malformed", sub |-> 0]
    ELSE IF t.key # secret THEN [err |-> "BadSignature", sub |-> 0]
    ELSE IF at >= t.exp THEN [err |-> "Expired", sub |-> 0]
    ELSE [err |-> "", sub |-> t.sub]

\* auth.MakeRefreshToken: a fresh random token, or "" with an error
MakeRefreshToken(id, fail) ==
    IF fail THEN [err |-> TRUE, tok |-> EmptyTok]
    ELSE [err |-> FALSE, tok |-> Opaque(id)]

\* auth.HashPassword: a salted one-way hash
HashPassword(password, salt) == <<"bcrypt", salt, password>>

\* a comparison that accepts every password for a well-formed hash
CheckPasswordHashAny(password, hash) == hash[1] = "bcrypt"

\* auth.CheckPasswordHash
CheckPasswordHash(password, hash) == hash = HashPassword(password, hash[2])

\* ------------------------------------------------------------ chirp bodies
\* A body is the sequence of its space-separated words.
Words == {"hi", "Kerfuffle", "sharbert", "fornax!", "long", "full"}
badWords == {"kerfuffle", "sharbert", "fornax"}

\* len(word) in bytes; "long" stands for a word of 141 letters, "full" for
\* one of 140
WordLen(w) ==
    CASE w = "hi" -> 2
      [] w = "Kerfuffle" -> 9
      [] w = "sharbert" -> 8
      [] w = "fornax!" -> 7
      [] w = "long" -> maxChirpLength + 1
      [] w = "full" -> maxChirpLength
      [] OTHER -> 4

\* strings.ToLower
ToLower(w) == IF w = "Kerfuffle" THEN "kerfuffle" ELSE w

RECURSIVE SumLen(_)
SumLen(ws) == IF ws = <<>> THEN 0 ELSE WordLen(Head(ws)) + SumLen(Tail(ws))

\* len(body): the words and the spaces between them
BodyLen(ws) == IF ws = <<>> THEN 0 ELSE SumLen(ws) + Len(ws) - 1

\* a cleaning that compares the words as they are written
cleanRequestBodyCaseSensitive(ws, bad) ==
    [i \in 1..Len(ws) |-> IF ws[i] \in bad THEN "****" ELSE ws[i]]

\* cleanRequestBody
cleanRequestBody(ws, bad) ==
    [i \in 1..Len(ws) |-> IF ToLower(ws[i]) \in bad THEN "****" ELSE ws[i]]

\* validateChirp
validateChirp(ws) ==
    IF BodyLen(ws) > maxChirpLength
    THEN [err |-> "Chirp is too long", cleaned |-> <<>>]
    ELSE [err |-> "", cleaned |-> cleanRequestBody(ws, badWords)]

Bodies == {<<"Kerfuffle", "hi">>, <<"long">>}

\* ------------------------------------------------------------ responses
\* What a handler writes: the status of the first WriteHeader and every
\* payload written to the body, in order.
Payload(kind, msg, id, email, token, refresh_token, body, user_id) ==
    [kind |-> kind, msg |-> msg, id |-> id, email |-> email, token |-> token,
     refresh_token |-> refresh_token, body |-> body, user_id |-> user_id]
ErrorP(msg) == Payload("error", msg, 0, "", EmptyTok, EmptyTok, <<>>, 0)
NullP == Payload("null", "", 0, "", EmptyTok, EmptyTok, <<>>, 0)
TextP(msg) == Payload("text", msg, 0, "", EmptyTok, EmptyTok, <<>>, 0)
\* a user payload that is the row of the table users as the store returns it
UserPRow(u) ==
    [kind |-> "user", msg |-> "", id |-> u.id, email |-> u.email, token |-> EmptyTok,
     refresh_token |-> EmptyTok, body |-> <<>>, user_id |-> 0,
     hashed_password |-> u.hashed_password]
UserP(u) == Payload("user", "", u.id, u.email, EmptyTok, EmptyTok, <<>>, 0)
LoginP(u, t, rt) == Payload("login", "", u.id, u.email, t, rt, <<>>, 0)
TokenP(t) == Payload("token", "", 0, "", t, EmptyTok, <<>>, 0)
ChirpP(c) == Payload("chirp", "", c.id, "", EmptyTok, EmptyTok, c.body, c.user_id)

\* the http.ResponseWriter before anything is written
W0 == [status |-> 0, body |-> <<>>]

\* w.WriteHeader(code); w.Write(dat): only the first WriteHeader counts
respondWithJSON(w, code, payload) ==
    [status |-> IF w.status = 0 THEN code ELSE w.status,
     body |-> Append(w.body, payload)]

\* respondWithError
respondWithError(w, code, msg) == respondWithJSON(w, code, ErrorP(msg))

\* the access tokens a response body carries
TokensIn(body) ==
    {body[i].token : i \in {j \in 1..Len(body) : body[j].token.kind = "jwt"}}

\* ------------------------------------------------------------ the store
\* users.CreateUser: the email is unique
CreateUser(email, hash, id, fail) ==
    IF fail \/ \E u \in users : u.email = email
    THEN [err |-> TRUE, rows |-> users, row |-> [id |-> 0, email |-> "", hashed_password |-> hash]]
    ELSE [err |-> FALSE,
          rows |-> users \cup {[id |-> id, email |-> email, hashed_password |-> hash]},
          row |-> [id |-> id, email |-> email, hashed_password |-> hash]]

\* users.GetUserByEmail
GetUserByEmail(email, fail) ==
    IF fail THEN {} ELSE {u \in users : u.email = email}

\* refresh_tokens.CreateRefreshToken: token is the primary key, user_id
\* references users(id); revoked_at starts NULL (the empty set)
CreateRefreshToken(token, user_id, expires_at, fail) ==
    IF \/ fail
       \/ \E r \in refresh_tokens : r.token = token
       \/ ~ \E u \in users : u.id = user_id
    THEN [err |-> TRUE, rows |-> refresh_tokens]
    ELSE [err |-> FALSE,
          rows |-> refresh_tokens \cup
                   {[token |-> token, user_id |-> user_id,
                     expires_at |-> expires_at, revoked_at |-> {}]}]

\* refresh_tokens.GetUserByRefreshToken: the owner of a token that is neither
\* revoked nor expired
GetUserByRefreshToken(token, at, fail) ==
    IF fail THEN {}
    ELSE {u \in users : \E r \in refresh_tokens :
              /\ r.token = token
              /\ r.revoked_at = {}
              /\ at < r.expires_at
              /\ r.user_id = u.id}

\* refresh_tokens.RevokeToken: sets revoked_at of the token's row
RevokeToken(token, at, fail) ==
    IF fail \/ ~ \E r \in refresh_tokens : r.token = token
    THEN [err |-> TRUE, rows |-> refresh_tokens]
    ELSE [err |-> FALSE,
          rows |-> {IF r.token = token THEN [r EXCEPT !.revoked_at = {at}] ELSE r :
                    r \in refresh_tokens}]

\* chirps.CreateChirp: user_id references users(id)
CreateChirp(body, user_id, id, fail) ==
    IF fail \/ ~ \E u \in users : u.id = user_id
    THEN [err |-> TRUE, rows |-> chirps, row |-> [id |-> 0, body |-> <<>>, user_id |-> 0]]
    ELSE [err |-> FALSE,
          rows |-> chirps \cup {[id |-> id, body |-> body, user_id |-> user_id]},
          row |-> [id |-> id, body |-> body, user_id |-> user_id]]

\* chirps.GetChirp
GetChirp(id, fail) == IF fail THEN {} ELSE {c \in chirps : c.id = id}

\* chirps.DeleteChirp
DeleteChirp(id, fail) ==
    IF fail THEN [err |-> TRUE, rows |-> chirps]
    ELSE [err |-> FALSE, rows |-> {c \in chirps : c.id # id}]

\* a deletion of the users that leaves the rows referencing them
DeleteUsersNoCascade(fail) ==
    IF fail
    THEN [err |-> TRUE, users |-> users, chirps |-> chirps, tokens |-> refresh_tokens]
    ELSE [err |-> FALSE, users |-> {}, chirps |-> chirps, tokens |-> refresh_tokens]

\* users.DeleteUsers: chirps and refresh tokens go with their users
\* (ON DELETE CASCADE)
DeleteUsers(fail) ==
    IF fail
    THEN [err |-> TRUE, users |-> users, chirps |-> chirps, tokens |-> refresh_tokens]
    ELSE [err |-> FALSE, users |-> {}, chirps |-> {}, tokens |-> {}]

\* ------------------------------------------------------------ logins in progress
\* the goroutines that may be inside loginHandler at once
Procs == 1..MaxLogins

\* a goroutine outside loginHandler
Idle ==
    [pc |-> "idle", email |-> "", password |-> "", user |-> {},
     token |-> EmptyTok, refreshToken |-> EmptyTok, w |-> W0, f |-> {}]

\* ------------------------------------------------------------ /app requests in progress
\* the goroutines that may be inside middlewareMetricsInc at once
AppProcs == 1..MaxApps

\* a goroutine outside middlewareMetricsInc
AppIdle == [pc |-> "idle", hits |-> 0]

\* ------------------------------------------------------------ startup
\* main: the environment supplies PLATFORM and JWT_SECRET; the database the
\* server connects to is empty
Init ==
    /\ platform \in Platforms
    /\ jwtSecret \in ServerSecrets
    /\ fileserverHits = 0
    /\ now = 0
    /\ ticks = 0
    /\ users = {}
    /\ refresh_tokens = {}
    /\ chirps = {}
    /\ nextId = [user |-> 1, token |-> 1, chirp |-> 1]
    /\ issued = {}
    /\ revoked = {}
    /\ login = [p \in Procs |-> Idle]
    /\ phase = "serving"
    /\ env = [PLATFORM |-> platform, JWT_SECRET |-> jwtSecret]
    /\ chirpy_red = {}
    /\ polkaKey = "pk1"
    /\ app = [p \in AppProcs |-> AppIdle]
    /\ handled = 0

\* the process before main has run: nothing is configured yet, and the
\* environment may lack PLATFORM or JWT_SECRET
InitStart ==
    /\ platform = ""
    /\ jwtSecret = ""
    /\ fileserverHits = 0
    /\ now = 0
    /\ ticks = 0
    /\ users = {}
    /\ refresh_tokens = {}
    /\ chirps = {}
    /\ nextId = [user |-> 1, token |-> 1, chirp |-> 1]
    /\ issued = {}
    /\ revoked = {}
    /\ login = [p \in Procs |-> Idle]
    /\ phase = "main"
    /\ env \in [PLATFORM : Platforms \cup {""}, JWT_SECRET : ServerSecrets \cup {""}]
    /\ chirpy_red = {}
    /\ polkaKey = "pk1"
    /\ app = [p \in AppProcs |-> AppIdle]
    /\ handled = 0

\* what main leaves alone
MainFrame ==
    UNCHANGED <<fileserverHits, now, ticks, users, refresh_tokens, chirps, nextId,
                issued, revoked, login, env, chirpy_red, polkaKey,
                   app, handled>>

\* a main that serves whatever JWT_SECRET holds
mainNoSecretCheck ==
    /\ phase = "main"
    /\ IF env.PLATFORM = ""
       THEN phase' = "exited" /\ UNCHANGED <<platform, jwtSecret>>
       ELSE /\ platform' = env.PLATFORM
            /\ jwtSecret' = env.JWT_SECRET
            /\ phase' = "serving"
    /\ MainFrame

\* main: log.Fatal when PLATFORM or JWT_SECRET is empty, else build apiConfig
\* and srv.ListenAndServe()
main ==
    /\ phase = "main"
    /\ IF env.PLATFORM = "" \/ env.JWT_SECRET = ""
       THEN phase' = "exited" /\ UNCHANGED <<platform, jwtSecret>>
       ELSE /\ platform' = env.PLATFORM
            /\ jwtSecret' = env.JWT_SECRET
            /\ phase' = "serving"
    /\ MainFrame

\* ------------------------------------------------------------ handlers
\* What a handler has done when it returns: the response written and the
\* store as it leaves it.  Res(w): the response w, the store untouched.
Res(w) ==
    [w |-> w, users |-> users, refresh_tokens |-> refresh_tokens,
     chirps |-> chirps, nextId |-> nextId, fileserverHits |-> fileserverHits,
     handled |-> handled]

\* middlewareMetricsInc
middlewareMetricsInc ==
    [Res(respondWithJSON(W0, 200, TextP("file"))) EXCEPT
        !.fileserverHits = fileserverHits + 1, !.handled = handled + 1]

\* resetMetricHandler
resetMetricHandler(f) ==
    LET w1 == IF platform # "dev"
              THEN respondWithError(W0, 403, "Access not allowed")
              ELSE W0
        del == DeleteUsers("write" \in f)
    IN IF del.err
       THEN [Res(respondWithError(w1, 500, "couldn't delete users")) EXCEPT
                !.fileserverHits = 0, !.handled = 0]
       ELSE [Res(respondWithJSON(w1, 200, TextP("Hits reset to 0"))) EXCEPT
                !.fileserverHits = 0, !.handled = 0, !.users = del.users,
                !.chirps = del.chirps, !.refresh_tokens = del.tokens]

\* createUserHandler of the snapshot without passwords
createUserHandlerEmailOnly(email, f) ==
    LET ins == CreateUser(email, <<"unset", "", "">>, nextId.user, "write" \in f)
    IN IF "decode" \in f
       THEN Res(respondWithError(W0, 500, "Couldn't decode parameters"))
       ELSE IF ins.err
       THEN Res(respondWithError(W0, 500, "Couldn't store user"))
       ELSE [Res(respondWithJSON(W0, 201, UserP(ins.row))) EXCEPT
                !.users = ins.rows, !.nextId.user = @ + 1]

\* createUserHandler
createUserHandler(email, password, salt, f) ==
    LET ins == CreateUser(email, HashPassword(password, salt), nextId.user,
                          "write" \in f)
    IN IF "decode" \in f
       THEN Res(respondWithError(W0, 500, "Couldn't decode parameters"))
       ELSE IF "hash" \in f
       THEN Res(respondWithError(W0, 500, "Couldn't hash password"))
       ELSE IF ins.err
       THEN Res(respondWithError(W0, 500, "Couldn't store user"))
       ELSE [Res(respondWithJSON(W0, 201, UserP(ins.row))) EXCEPT
                !.users = ins.rows, !.nextId.user = @ + 1]

\* a login that tells an unknown email from a wrong password
loginHandlerTellsUnknown(email, password, f) ==
    LET found == GetUserByEmail(email, "lookup" \in f)
    IN IF "decode" \in f
       THEN Res(respondWithError(W0, 500, "Couldn't decode parameters"))
       ELSE IF found = {}
       THEN Res(respondWithError(W0, 404, "User not found"))
       ELSE LET user == CHOOSE u \in found : TRUE IN
            IF ~CheckPasswordHash(password, user.hashed_password)
            THEN Res(respondWithError(W0, 401, "Incorrect email or password"))
            ELSE LET jwt == MakeJWT(user.id, jwtSecret, Hour, now, "jwt" \in f)
                     rt == MakeRefreshToken(nextId.token, "rand" \in f)
                     ins == CreateRefreshToken(rt.tok, user.id, now + RefreshWindow,
                                               "write" \in f)
                 IN IF jwt.err \/ rt.err \/ ins.err
                    THEN Res(respondWithError(W0, 500, "Couldn't log in"))
                    ELSE [Res(respondWithJSON(W0, 200, LoginP(user, jwt.tok, rt.tok)))
                             EXCEPT !.nextId.token = @ + 1, !.refresh_tokens = ins.rows]

\* a login that answers with its tokens although the refresh token was not saved
loginHandlerKeepsGoing(email, password, f) ==
    LET found == GetUserByEmail(email, "lookup" \in f)
    IN IF "decode" \in f
       THEN Res(respondWithError(W0, 500, "Couldn't decode parameters"))
       ELSE IF found = {}
       THEN Res(respondWithError(W0, 401, "Incorrect email or password"))
       ELSE LET user == CHOOSE u \in found : TRUE IN
            IF ~CheckPasswordHash(password, user.hashed_password)
            THEN Res(respondWithError(W0, 401, "Incorrect email or password"))
            ELSE LET jwt == MakeJWT(user.id, jwtSecret, Hour, now, "jwt" \in f)
                     rt == MakeRefreshToken(nextId.token, "rand" \in f)
                     ins == CreateRefreshToken(rt.tok, user.id, now + RefreshWindow,
                                               "write" \in f)
                     w1 == IF ins.err
                           THEN respondWithError(W0, 500, "Couldn't save refresh token")
                           ELSE W0
                 IN [Res(respondWithJSON(w1, 200, LoginP(user, jwt.tok, rt.tok)))
                        EXCEPT !.refresh_tokens = ins.rows,
                               !.nextId.token = IF rt.err THEN @ ELSE @ + 1]

\* loginHandler of the server with refresh tokens
loginHandler(email, password, f) ==
    LET found == GetUserByEmail(email, "lookup" \in f)
    IN IF "decode" \in f
       THEN Res(respondWithError(W0, 500, "Couldn't decode parameters"))
       ELSE IF found = {}
       THEN Res(respondWithError(W0, 401, "Incorrect email or password"))
       ELSE LET user == CHOOSE u \in found : TRUE IN
            IF ~CheckPasswordHash(password, user.hashed_password)
            THEN Res(respondWithError(W0, 401, "Incorrect email or password"))
            ELSE LET jwt == MakeJWT(user.id, jwtSecret, Hour, now, "jwt" \in f)
                     w1 == IF jwt.err
                           THEN respondWithError(W0, 500, "Couldn't create access token")
                           ELSE W0
                     rt == MakeRefreshToken(nextId.token, "rand" \in f)
                     w2 == IF rt.err
                           THEN respondWithError(w1, 500, "Couldn't create refresh token")
                           ELSE w1
                     ins == CreateRefreshToken(rt.tok, user.id, now + RefreshWindow,
                                               "write" \in f)
                     drawn == IF rt.err THEN nextId
                              ELSE [nextId EXCEPT !.token = @ + 1]
                 IN IF ins.err
                    THEN [Res(respondWithError(w2, 500, "Couldn't save refresh token"))
                             EXCEPT !.nextId = drawn]
                    ELSE [Res(respondWithJSON(w2, 200, LoginP(user, jwt.tok, rt.tok)))
                             EXCEPT !.nextId = drawn, !.refresh_tokens = ins.rows]

\* json.Decode into the parameters of the server with refresh tokens: they
\* hold email and password only, a field expires_in_seconds of the request
\* body is dropped
loginHandlerDecode(email, password, expiresInSeconds, f) ==
    loginHandler(email, password, f)

\* a login that takes any positive expires_in_seconds as the lifetime
loginHandlerNoCeiling(email, password, expiresInSeconds, f) ==
    LET found == GetUserByEmail(email, "lookup" \in f)
    IN IF "decode" \in f
       THEN Res(respondWithError(W0, 500, "Couldn't decode parameters"))
       ELSE IF found = {}
       THEN Res(respondWithError(W0, 401, "Incorrect email or password"))
       ELSE LET user == CHOOSE u \in found : TRUE IN
            IF ~CheckPasswordHash(password, user.hashed_password)
            THEN Res(respondWithError(W0, 401, "Incorrect email or password"))
            ELSE LET expireDuration ==
                         IF expiresInSeconds > 0 THEN expiresInSeconds ELSE Hour
                     jwt == MakeJWT(user.id, jwtSecret, expireDuration, now, "jwt" \in f)
                     w1 == IF jwt.err
                           THEN respondWithError(W0, 500, "Couldn't create token")
                           ELSE W0
                 IN Res(respondWithJSON(w1, 200, LoginP(user, jwt.tok, EmptyTok)))

\* loginHandler of main.go: expires_in_seconds, and no refresh token
loginHandlerExpiresIn(email, password, expiresInSeconds, f) ==
    LET found == GetUserByEmail(email, "lookup" \in f)
    IN IF "decode" \in f
       THEN Res(respondWithError(W0, 500, "Couldn't decode parameters"))
       ELSE IF found = {}
       THEN Res(respondWithError(W0, 401, "Incorrect email or password"))
       ELSE LET user == CHOOSE u \in found : TRUE IN
            IF ~CheckPasswordHash(password, user.hashed_password)
            THEN Res(respondWithError(W0, 401, "Incorrect email or password"))
            ELSE LET expireDuration ==
                         IF expiresInSeconds > 0 /\ expiresInSeconds < Hour
                         THEN expiresInSeconds ELSE Hour
                     jwt == MakeJWT(user.id, jwtSecret, expireDuration, now, "jwt" \in f)
                     w1 == IF jwt.err
                           THEN respondWithError(W0, 500, "Couldn't create token")
                           ELSE W0
                 IN Res(respondWithJSON(w1, 200, LoginP(user, jwt.tok, EmptyTok)))

\* a refresh that honours a token past its expiry
refreshHandlerNoExpiry(h, f) ==
    LET bearer == GetBearerToken(h)
        found == IF "lookup" \in f THEN {}
                 ELSE {u \in users : \E r \in refresh_tokens :
                           /\ r.token = bearer.tok
                           /\ r.revoked_at = {}
                           /\ r.user_id = u.id}
    IN IF bearer.err # ""
       THEN Res(respondWithError(W0, 400, "Couldn't find token"))
       ELSE IF found = {}
       THEN Res(respondWithError(W0, 401, "Couldn't get user for refresh token"))
       ELSE LET user == CHOOSE u \in found : TRUE
                jwt == MakeJWT(user.id, jwtSecret, Hour, now, "jwt" \in f)
                w1 == IF jwt.err
                      THEN respondWithError(W0, 401, "Couldn't create access token")
                      ELSE W0
            IN Res(respondWithJSON(w1, 200, TokenP(jwt.tok)))

\* a refresh that tells the caller why the token was turned down
refreshHandlerTellsWhy(h, f) ==
    LET bearer == GetBearerToken(h)
        found == GetUserByRefreshToken(bearer.tok, now, "lookup" \in f)
        rows == {r \in refresh_tokens : r.token = bearer.tok}
    IN IF bearer.err # ""
       THEN Res(respondWithError(W0, 400, "Couldn't find token"))
       ELSE IF rows = {}
       THEN Res(respondWithError(W0, 401, "Unknown refresh token"))
       ELSE IF \E r \in rows : r.revoked_at # {}
       THEN Res(respondWithError(W0, 401, "Refresh token revoked"))
       ELSE IF found = {}
       THEN Res(respondWithError(W0, 401, "Refresh token expired"))
       ELSE LET user == CHOOSE u \in found : TRUE
                jwt == MakeJWT(user.id, jwtSecret, Hour, now, "jwt" \in f)
                w1 == IF jwt.err
                      THEN respondWithError(W0, 401, "Couldn't create access token")
                      ELSE W0
            IN Res(respondWithJSON(w1, 200, TokenP(jwt.tok)))

\* a refresh that extends the token's expiry by another 60 days
refreshHandlerExtends(h, f) ==
    LET bearer == GetBearerToken(h)
        found == GetUserByRefreshToken(bearer.tok, now, "lookup" \in f)
    IN IF bearer.err # ""
       THEN Res(respondWithError(W0, 400, "Couldn't find token"))
       ELSE IF found = {}
       THEN Res(respondWithError(W0, 401, "Couldn't get user for refresh token"))
       ELSE LET user == CHOOSE u \in found : TRUE
                jwt == MakeJWT(user.id, jwtSecret, Hour, now, "jwt" \in f)
                w1 == IF jwt.err
                      THEN respondWithError(W0, 401, "Couldn't create access token")
                      ELSE W0
            IN [Res(respondWithJSON(w1, 200, TokenP(jwt.tok))) EXCEPT
                   !.refresh_tokens =
                       {IF r.token = bearer.tok
                        THEN [r EXCEPT !.expires_at = now + RefreshWindow]
                        ELSE r : r \in refresh_tokens}]

\* refreshHandler
refreshHandler(h, f) ==
    LET bearer == GetBearerToken(h)
        found == GetUserByRefreshToken(bearer.tok, now, "lookup" \in f)
    IN IF bearer.err # ""
       THEN Res(respondWithError(W0, 400, "Couldn't find token"))
       ELSE IF found = {}
       THEN Res(respondWithError(W0, 401, "Couldn't get user for refresh token"))
       ELSE LET user == CHOOSE u \in found : TRUE
                jwt == MakeJWT(user.id, jwtSecret, Hour, now, "jwt" \in f)
                w1 == IF jwt.err
                      THEN respondWithError(W0, 401, "Couldn't create access token")
                      ELSE W0
            IN Res(respondWithJSON(w1, 200, TokenP(jwt.tok)))

\* a revocation that acknowledges without writing
revokeHandlerNoWrite(h, f) ==
    LET bearer == GetBearerToken(h)
    IN IF bearer.err # ""
       THEN Res(respondWithError(W0, 400, "No token provided"))
       ELSE Res(respondWithJSON(W0, 204, NullP))

\* a revocation that turns down a token already revoked
revokeHandlerOnlyOnce(h, f) ==
    LET bearer == GetBearerToken(h)
        rev == RevokeToken(bearer.tok, now, "write" \in f)
    IN IF bearer.err # ""
       THEN Res(respondWithError(W0, 400, "No token provided"))
       ELSE IF rev.err \/ \E r \in refresh_tokens :
                              r.token = bearer.tok /\ r.revoked_at # {}
       THEN Res(respondWithError(W0, 500, "Couldn't revoke token"))
       ELSE [Res(respondWithJSON(W0, 204, NullP)) EXCEPT !.refresh_tokens = rev.rows]

\* a revocation that ends every session of the token's user
revokeHandlerAllSessions(h, f) ==
    LET bearer == GetBearerToken(h)
        rev == RevokeToken(bearer.tok, now, "write" \in f)
        owners == {x.user_id : x \in {y \in refresh_tokens : y.token = bearer.tok}}
    IN IF bearer.err # ""
       THEN Res(respondWithError(W0, 400, "No token provided"))
       ELSE IF rev.err
       THEN Res(respondWithError(W0, 500, "Couldn't revoke token"))
       ELSE [Res(respondWithJSON(W0, 204, NullP)) EXCEPT
                !.refresh_tokens =
                    {IF x.user_id \in owners THEN [x EXCEPT !.revoked_at = {now}] ELSE x :
                     x \in refresh_tokens}]

\* revokeHandler
revokeHandler(h, f) ==
    LET bearer == GetBearerToken(h)
        rev == RevokeToken(bearer.tok, now, "write" \in f)
    IN IF bearer.err # ""
       THEN Res(respondWithError(W0, 400, "No token provided"))
       ELSE IF rev.err
       THEN Res(respondWithError(W0, 500, "Couldn't revoke token"))
       ELSE [Res(respondWithJSON(W0, 204, NullP)) EXCEPT !.refresh_tokens = rev.rows]

\* createChirpHandler of the server without authentication: the owner is the
\* user_id of the request body
createChirpHandlerUserIdInBody(body, userId, f) ==
    LET chk == validateChirp(body)
        ins == CreateChirp(chk.cleaned, userId, nextId.chirp, "write" \in f)
    IN IF "decode" \in f
       THEN Res(respondWithError(W0, 500, "Couldn't decode parameters"))
       ELSE IF chk.err # ""
       THEN Res(respondWithError(W0, 500, chk.err))
       ELSE IF ins.err
       THEN Res(respondWithError(W0, 500, "Couldn't store user"))
       ELSE [Res(respondWithJSON(W0, 201, ChirpP(ins.row))) EXCEPT
                !.chirps = ins.rows, !.nextId.chirp = @ + 1]

\* a chirp creation that also asks the store for a live session of the subject
createChirpHandlerLiveSession(h, body, f) ==
    LET bearer == GetBearerToken(h)
        auth == ValidateJWT(bearer.tok, jwtSecret, now)
        chk == validateChirp(body)
        ins == CreateChirp(chk.cleaned, auth.sub, nextId.chirp, "write" \in f)
    IN IF bearer.err # ""
       THEN Res(respondWithError(W0, 401, "No JWT provided"))
       ELSE IF auth.err # ""
       THEN Res(respondWithError(W0, 401, "Couldn't validate JWT"))
       ELSE IF ~ \E r \in refresh_tokens : r.user_id = auth.sub /\ r.revoked_at = {}
       THEN Res(respondWithError(W0, 401, "Session ended"))
       ELSE IF "decode" \in f
       THEN Res(respondWithError(W0, 500, "Couldn't decode parameters"))
       ELSE IF chk.err # ""
       THEN Res(respondWithError(W0, 500, chk.err))
       ELSE IF ins.err
       THEN Res(respondWithError(W0, 500, "Couldn't store user"))
       ELSE [Res(respondWithJSON(W0, 201, ChirpP(ins.row))) EXCEPT
                !.chirps = ins.rows, !.nextId.chirp = @ + 1]

\* createChirpHandler
createChirpHandler(h, body, f) ==
    LET bearer == GetBearerToken(h)
        auth == ValidateJWT(bearer.tok, jwtSecret, now)
        chk == validateChirp(body)
        ins == CreateChirp(chk.cleaned, auth.sub, nextId.chirp, "write" \in f)
    IN IF bearer.err # ""
       THEN Res(respondWithError(W0, 401, "No JWT provided"))
       ELSE IF auth.err # ""
       THEN Res(respondWithError(W0, 401, "Couldn't validate JWT"))
       ELSE IF "decode" \in f
       THEN Res(respondWithError(W0, 500, "Couldn't decode parameters"))
       ELSE IF chk.err # ""
       THEN Res(respondWithError(W0, 500, chk.err))
       ELSE IF ins.err
       THEN Res(respondWithError(W0, 500, "Couldn't store user"))
       ELSE [Res(respondWithJSON(W0, 201, ChirpP(ins.row))) EXCEPT
                !.chirps = ins.rows, !.nextId.chirp = @ + 1]

\* a deletion that does not compare the chirp's owner with the subject
deleteChirpHandlerNoOwnerCheck(h, chirpID, f) ==
    LET bearer == GetBearerToken(h)
        auth == ValidateJWT(bearer.tok, jwtSecret, now)
        found == GetChirp(chirpID, "lookup" \in f)
        del == DeleteChirp(chirpID, "write" \in f)
    IN IF bearer.err # ""
       THEN Res(respondWithError(W0, 401, "No JWT provided"))
       ELSE IF auth.err # ""
       THEN Res(respondWithError(W0, 401, "Couldn't validate JWT"))
       ELSE IF chirpID = 0
       THEN Res(respondWithError(W0, 400, "Invalid chirp ID"))
       ELSE IF found = {}
       THEN Res(respondWithError(W0, 404, "Couldn't get chirp"))
       ELSE IF del.err
       THEN Res(respondWithError(W0, 500, "Couldn't delete chirp"))
       ELSE [Res(respondWithJSON(W0, 204, NullP)) EXCEPT !.chirps = del.rows]

\* deleteChirpHandler; chirpID 0 stands for a path value that is no uuid
deleteChirpHandler(h, chirpID, f) ==
    LET bearer == GetBearerToken(h)
        auth == ValidateJWT(bearer.tok, jwtSecret, now)
        found == GetChirp(chirpID, "lookup" \in f)
        del == DeleteChirp(chirpID, "write" \in f)
    IN IF bearer.err # ""
       THEN Res(respondWithError(W0, 401, "No JWT provided"))
       ELSE IF auth.err # ""
       THEN Res(respondWithError(W0, 401, "Couldn't validate JWT"))
       ELSE IF chirpID = 0
       THEN Res(respondWithError(W0, 400, "Invalid chirp ID"))
       ELSE IF found = {}
       THEN Res(respondWithError(W0, 404, "Couldn't get chirp"))
       ELSE LET chirp == CHOOSE c \in found : TRUE IN
            IF chirp.user_id # auth.sub
            THEN Res(respondWithError(W0, 403, "You can't delete this chirp"))
            ELSE IF del.err
            THEN Res(respondWithError(W0, 500, "Couldn't delete chirp"))
            ELSE [Res(respondWithJSON(W0, 204, NullP)) EXCEPT !.chirps = del.rows]

\* ------------------------------------------------------------ requests
\* access tokens a client can make up: well formed, signed with another key
Forged ==
    {Tok("jwt", u, now, now + Hour, k, 0) : u \in 1..MaxUsers, k \in Secrets \ {jwtSecret}}

AccessHeaders ==
    {NoHeader, Basic(GarbageTok), Bearer(GarbageTok), Bearer(Opaque(1))}
        \cup {Bearer(t) : t \in issued \cup Forged}

RefreshHeaders ==
    {NoHeader, Bearer(GarbageTok)} \cup {Bearer(Opaque(k)) : k \in 1..MaxRefresh}

ExpiresInSecondsInputs == {-1, 0, Hour \div 2, Hour, Hour + 1}

CreateUserFaults == Faults({"decode", "hash", "write"})
LoginFaults == Faults({"decode", "lookup", "jwt", "rand", "write"})
LoginExpiresInFaults == Faults({"decode", "lookup", "jwt"})
RefreshFaults == Faults({"lookup", "jwt"})
RevokeFaults == Faults({"write"})
ChirpFaults == Faults({"decode", "write"})
DeleteFaults == Faults({"lookup", "write"})

\* The server serves a request: the store becomes what the handler left, and
\* the client keeps the access tokens the response carries.
Serve(r) ==
    /\ phase = "serving"
    /\ r.nextId.user <= MaxUsers + 1
    /\ r.nextId.token <= MaxRefresh + 1
    /\ r.nextId.chirp <= MaxChirps + 1
    /\ r.fileserverHits <= MaxHits
    /\ Cardinality(issued \cup TokensIn(r.w.body)) <= MaxIssued
    /\ users' = r.users
    /\ refresh_tokens' = r.refresh_tokens
    /\ chirps' = r.chirps
    /\ nextId' = r.nextId
    /\ fileserverHits' = r.fileserverHits
    /\ issued' = issued \cup TokensIn(r.w.body)
    /\ chirpy_red' = chirpy_red \cap {u.id : u \in r.users}
    /\ handled' = r.handled
    /\ UNCHANGED <<platform, jwtSecret, now, ticks, login, phase, env, polkaKey, app>>

\* ------------------------------------------------------------ the subscription webhook
\* the header "Authorization: ApiKey <key>"
ApiKey(k) == [scheme |-> "ApiKey", tok |-> k]

\* auth.GetAPIKey: the key of an ApiKey header, an error without one
GetAPIKey(h) ==
    IF h.scheme = "ApiKey" /\ h.tok # ""
    THEN [err |-> "", key |-> h.tok]
    ELSE [err |-> "no api key", key |-> ""]

\* users.SetUserMembership: sets the membership of the user with this id and
\* returns the row; sql.ErrNoRows when there is none
SetUserMembership(user_id, fail) ==
    IF fail THEN [err |-> "failed", red |-> chirpy_red]
    ELSE IF ~ \E u \in users : u.id = user_id
    THEN [err |-> "ErrNoRows", red |-> chirpy_red]
    ELSE [err |-> "", red |-> chirpy_red \cup {user_id}]

\* what the webhook has done when it returns: the response, the tables and
\* the memberships
ResRed(w) ==
    [w |-> w, users |-> users, refresh_tokens |-> refresh_tokens, chirps |-> chirps,
     chirpy_red |-> chirpy_red]

\* a webhook that upgrades before it looks at the key and the event
addUserSubscribtionHandlerNoGate(h, event, userID, f) ==
    LET apiKey == GetAPIKey(h)
        set == SetUserMembership(userID, "write" \in f)
    IN IF apiKey.err # ""
       THEN [ResRed(respondWithError(W0, 401, "No api key provided")) EXCEPT
                !.chirpy_red = set.red]
       ELSE IF apiKey.key # polkaKey
       THEN [ResRed(respondWithError(W0, 401, "API key is invalid")) EXCEPT
                !.chirpy_red = set.red]
       ELSE IF "decode" \in f
       THEN ResRed(respondWithError(W0, 500, "Couldn't decode parameters"))
       ELSE IF event # "user.upgraded"
       THEN [ResRed(respondWithJSON(W0, 204, NullP)) EXCEPT !.chirpy_red = set.red]
       ELSE IF set.err = "ErrNoRows"
       THEN ResRed(respondWithError(W0, 404, "Couldn't find user"))
       ELSE IF set.err # ""
       THEN ResRed(respondWithError(W0, 500, "Couldn't set subscription"))
       ELSE [ResRed(respondWithJSON(W0, 204, NullP)) EXCEPT !.chirpy_red = set.red]

\* addUserSubscribtionHandler
addUserSubscribtionHandler(h, event, userID, f) ==
    LET apiKey == GetAPIKey(h)
        set == SetUserMembership(userID, "write" \in f)
    IN IF apiKey.err # ""
       THEN ResRed(respondWithError(W0, 401, "No api key provided"))
       ELSE IF apiKey.key # polkaKey
       THEN ResRed(respondWithError(W0, 401, "API key is invalid"))
       ELSE IF "decode" \in f
       THEN ResRed(respondWithError(W0, 500, "Couldn't decode parameters"))
       ELSE IF event # "user.upgraded"
       THEN ResRed(respondWithJSON(W0, 204, NullP))
       ELSE IF set.err = "ErrNoRows"
       THEN ResRed(respondWithError(W0, 404, "Couldn't find user"))
       ELSE IF set.err # ""
       THEN ResRed(respondWithError(W0, 500, "Couldn't set subscription"))
       ELSE [ResRed(respondWithJSON(W0, 204, NullP)) EXCEPT !.chirpy_red = set.red]

\* the webhook requests: with no key, the configured key or another one; an
\* upgrade or another event; the id of a user that may or may not exist
PolkaHeaders == {NoHeader, ApiKey("pk1"), ApiKey("pk2")}
Events == {"user.upgraded", "user.downgraded"}
PolkaFaults == Faults({"decode", "write"})

\* the server serves a webhook request: only the memberships can change
PostPolkaWebhooks ==
    \E h \in PolkaHeaders, ev \in Events, id \in 1..MaxUsers + 1, f \in PolkaFaults :
        LET r == addUserSubscribtionHandler(h, ev, id, f)
        IN /\ phase = "serving"
           /\ chirpy_red' = r.chirpy_red
           /\ UNCHANGED <<platform, jwtSecret, fileserverHits, now, ticks, users,
                          refresh_tokens, chirps, nextId, issued, revoked, login,
                          phase, env, polkaKey,
                   app, handled>>

\* a request to any route but the revocation
Handle(r) == Serve(r) /\ UNCHANGED revoked

GetApp == LET r == middlewareMetricsInc IN Handle(r)
PostReset == \E f \in RevokeFaults : LET r == resetMetricHandler(f) IN Handle(r)
PostUsersEmailOnly ==
    \E e \in Emails, f \in ChirpFaults :
        LET r == createUserHandlerEmailOnly(e, f) IN Handle(r)
PostUsers ==
    \E e \in Emails, p \in Registered, s \in Salts, f \in CreateUserFaults :
        LET r == createUserHandler(e, p, s, f) IN Handle(r)
PostLogin ==
    \E e \in Emails, p \in Passwords, f \in LoginFaults :
        LET r == loginHandler(e, p, f) IN Handle(r)
PostLoginExpiresIn ==
    \E e \in Emails, p \in Passwords, x \in ExpiresInSecondsInputs,
       f \in LoginExpiresInFaults :
        LET r == loginHandlerExpiresIn(e, p, x, f) IN Handle(r)
PostRefresh ==
    \E h \in RefreshHeaders, f \in RefreshFaults :
        LET r == refreshHandler(h, f) IN Handle(r)
PostRevoke ==
    \E h \in RefreshHeaders, f \in RevokeFaults :
        LET r == revokeHandler(h, f)
        IN /\ Serve(r)
           /\ revoked' = IF r.w.status = 204 THEN revoked \cup {h.tok} ELSE revoked
PostChirpsUserIdInBody ==
    \E b \in Bodies, u \in 0..MaxUsers, f \in ChirpFaults :
        LET r == createChirpHandlerUserIdInBody(b, u, f) IN Handle(r)
PostChirps ==
    \E h \in AccessHeaders, b \in Bodies, f \in ChirpFaults :
        LET r == createChirpHandler(h, b, f) IN Handle(r)
DeleteChirps ==
    \E h \in AccessHeaders, c \in 0..MaxChirps, f \in DeleteFaults :
        LET r == deleteChirpHandler(h, c, f) IN Handle(r)

\* ------------------------------------------------------------ the clock
\* the instants at which some token expires
Instants == {r.expires_at : r \in refresh_tokens} \cup {t.exp : t \in issued}

\* time.Now: time passes to a later instant
Tick ==
    /\ ticks < MaxTicks
    /\ ticks' = ticks + 1
    /\ \E t \in Instants : t > now /\ now' = t
    /\ UNCHANGED <<platform, jwtSecret, fileserverHits, users,
                   refresh_tokens, chirps, nextId, issued, revoked, login,
                   phase, env, chirpy_red, polkaKey,
                   app, handled>>

\* ------------------------------------------------------------ loginHandler, step by step
\* loginHandler of the server with refresh tokens as the goroutine p runs it:
\* one action per call it makes.  A step that can fail picks whether it does;
\* f collects the failures the execution has met.
Meets(p, kind) == Cardinality(login[p].f \cup {kind}) <= MaxFaults

\* the other variables a step of a login leaves alone
LoginFrame ==
    UNCHANGED <<platform, jwtSecret, fileserverHits, now, ticks, users, chirps, revoked,
                   phase, env, chirpy_red, polkaKey,
                   app, handled>>

\* decoder.Decode(&params)
loginDecode(p) ==
    /\ login[p].pc = "idle"
    /\ \E e \in Emails, pw \in Passwords, fail \in BOOLEAN :
           /\ fail => Meets(p, "decode")
           /\ login' = [login EXCEPT ![p] =
                  IF fail
                  THEN [Idle EXCEPT !.pc = "return", !.f = {"decode"},
                            !.w = respondWithError(W0, 500, "Couldn't decode parameters")]
                  ELSE [Idle EXCEPT !.pc = "GetUserByEmail", !.email = e,
                            !.password = pw]]
    /\ UNCHANGED <<refresh_tokens, nextId, issued>>
    /\ LoginFrame

\* cfg.dbQueries.GetUserByEmail
loginGetUserByEmail(p) ==
    /\ login[p].pc = "GetUserByEmail"
    /\ \E fail \in BOOLEAN :
           /\ fail => Meets(p, "lookup")
           /\ LET found == GetUserByEmail(login[p].email, fail)
              IN login' = [login EXCEPT ![p] =
                     IF found = {}
                     THEN [@ EXCEPT !.pc = "return",
                              !.f = IF fail THEN @ \cup {"lookup"} ELSE @,
                              !.w = respondWithError(W0, 401, "Incorrect email or password")]
                     ELSE [@ EXCEPT !.pc = "CheckPasswordHash", !.user = found]]
    /\ UNCHANGED <<refresh_tokens, nextId, issued>>
    /\ LoginFrame

\* auth.CheckPasswordHash
loginCheckPasswordHash(p) ==
    /\ login[p].pc = "CheckPasswordHash"
    /\ LET user == CHOOSE u \in login[p].user : TRUE
       IN login' = [login EXCEPT ![p] =
              IF ~CheckPasswordHash(login[p].password, user.hashed_password)
              THEN [@ EXCEPT !.pc = "return",
                       !.w = respondWithError(W0, 401, "Incorrect email or password")]
              ELSE [@ EXCEPT !.pc = "MakeJWT"]]
    /\ UNCHANGED <<refresh_tokens, nextId, issued>>
    /\ LoginFrame

\* auth.MakeJWT: on an error the handler writes 500 and goes on
loginMakeJWT(p) ==
    /\ login[p].pc = "MakeJWT"
    /\ \E fail \in BOOLEAN :
           /\ fail => Meets(p, "jwt")
           /\ LET user == CHOOSE u \in login[p].user : TRUE
                  jwt == MakeJWT(user.id, jwtSecret, Hour, now, fail)
              IN login' = [login EXCEPT ![p] =
                     [@ EXCEPT !.pc = "MakeRefreshToken",
                         !.token = jwt.tok,
                         !.f = IF fail THEN @ \cup {"jwt"} ELSE @,
                         !.w = IF jwt.err
                               THEN respondWithError(@, 500, "Couldn't create access token")
                               ELSE @]]
    /\ UNCHANGED <<refresh_tokens, nextId, issued>>
    /\ LoginFrame

\* auth.MakeRefreshToken: on an error the handler writes 500 and goes on
loginMakeRefreshToken(p) ==
    /\ login[p].pc = "MakeRefreshToken"
    /\ \E fail \in BOOLEAN :
           /\ fail => Meets(p, "rand")
           /\ ~fail => nextId.token <= MaxRefresh
           /\ LET rt == MakeRefreshToken(nextId.token, fail)
              IN /\ login' = [login EXCEPT ![p] =
                        [@ EXCEPT !.pc = "CreateRefreshToken",
                            !.refreshToken = rt.tok,
                            !.f = IF fail THEN @ \cup {"rand"} ELSE @,
                            !.w = IF rt.err
                                  THEN respondWithError(@, 500, "Couldn't create refresh token")
                                  ELSE @]]
                 /\ nextId' = IF rt.err THEN nextId ELSE [nextId EXCEPT !.token = @ + 1]
    /\ UNCHANGED <<refresh_tokens, issued>>
    /\ LoginFrame

\* a persist that keeps one session per user: it replaces the user's rows
loginCreateRefreshTokenOnePerUser(p) ==
    /\ login[p].pc = "CreateRefreshToken"
    /\ LET user == CHOOSE u \in login[p].user : TRUE
       IN /\ refresh_tokens' =
                 {r \in refresh_tokens : r.user_id # user.id} \cup
                 {[token |-> login[p].refreshToken, user_id |-> user.id,
                   expires_at |-> now + RefreshWindow, revoked_at |-> {}]}
          /\ login' = [login EXCEPT ![p].pc = "respond"]
    /\ UNCHANGED <<nextId, issued>>
    /\ LoginFrame

\* cfg.dbQueries.CreateRefreshToken
loginCreateRefreshToken(p) ==
    /\ login[p].pc = "CreateRefreshToken"
    /\ \E fail \in BOOLEAN :
           /\ fail => Meets(p, "write")
           /\ LET user == CHOOSE u \in login[p].user : TRUE
                  ins == CreateRefreshToken(login[p].refreshToken, user.id,
                                            now + RefreshWindow, fail)
              IN /\ refresh_tokens' = ins.rows
                 /\ login' = [login EXCEPT ![p] =
                        IF ins.err
                        THEN [@ EXCEPT !.pc = "return",
                                 !.f = IF fail THEN @ \cup {"write"} ELSE @,
                                 !.w = respondWithError(@, 500, "Couldn't save refresh token")]
                        ELSE [@ EXCEPT !.pc = "respond"]]
    /\ UNCHANGED <<nextId, issued>>
    /\ LoginFrame

\* respondWithJSON(w, http.StatusOK, response{...})
loginRespond(p) ==
    /\ login[p].pc = "respond"
    /\ LET user == CHOOSE u \in login[p].user : TRUE
       IN login' = [login EXCEPT ![p] =
              [@ EXCEPT !.pc = "return",
                  !.w = respondWithJSON(@, 200,
                            LoginP(user, login[p].token, login[p].refreshToken))]]
    /\ UNCHANGED <<refresh_tokens, nextId, issued>>
    /\ LoginFrame

\* the handler returns: the response goes to the client
loginReturn(p) ==
    /\ login[p].pc = "return"
    /\ Cardinality(issued \cup TokensIn(login[p].w.body)) <= MaxIssued
    /\ issued' = issued \cup TokensIn(login[p].w.body)
    /\ login' = [login EXCEPT ![p] = Idle]
    /\ UNCHANGED <<refresh_tokens, nextId>>
    /\ LoginFrame

\* ------------------------------------------------------------ middlewareMetricsInc, step by step
\* atomic.Int32.Add of a delta that is not negative: the sum wraps around at
\* 32 bits
MaxInt32 == 2147483647
MinInt32 == -MaxInt32 - 1
AddInt32(x, delta) ==
    IF x > MaxInt32 - delta
    THEN MinInt32 + (delta - 1 - (MaxInt32 - x))
    ELSE x + delta

\* the other variables a step of a /app request leaves alone
AppFrame ==
    UNCHANGED <<platform, jwtSecret, now, ticks, users, refresh_tokens, chirps, nextId,
                issued, revoked, login, phase, env, chirpy_red, polkaKey>>

\* the mux hands a /app request to the goroutine p
appRequest(p) ==
    /\ phase = "serving"
    /\ app[p].pc = "idle"
    /\ handled < MaxCounted
    /\ app' = [app EXCEPT ![p].pc = "Add"]
    /\ UNCHANGED <<fileserverHits, handled>>
    /\ AppFrame

\* the increment of the servers before atomic.Int32, cfg.fileserverHits++: a
\* load and a store
appAddLoadStore(p) ==
    /\ app[p].pc \in {"Add", "Store"}
    /\ IF app[p].pc = "Add"
       THEN /\ app' = [app EXCEPT ![p] = [pc |-> "Store", hits |-> fileserverHits]]
            /\ UNCHANGED <<fileserverHits, handled>>
       ELSE /\ fileserverHits' = AddInt32(app[p].hits, 1)
            /\ handled' = handled + 1
            /\ app' = [app EXCEPT ![p] = [pc |-> "ServeHTTP", hits |-> 0]]
    /\ AppFrame

\* cfg.fileserverHits.Add(1): with it the request is counted
appAdd(p) ==
    /\ app[p].pc = "Add"
    /\ fileserverHits' = AddInt32(fileserverHits, 1)
    /\ handled' = handled + 1
    /\ app' = [app EXCEPT ![p].pc = "ServeHTTP"]
    /\ AppFrame

\* next.ServeHTTP(w, r): the file server answers and the goroutine is done
appServeHTTP(p) ==
    /\ app[p].pc = "ServeHTTP"
    /\ app' = [app EXCEPT ![p] = AppIdle]
    /\ UNCHANGED <<fileserverHits, handled>>
    /\ AppFrame

\* ------------------------------------------------------------ the servers
\* the server with refresh tokens, revocation and chirp deletion: its api and
\* admin routes that write (the file server's counter is left to the servers
\* below)
Next ==
    \/ PostReset
    \/ PostUsers
    \/ PostLogin
    \/ PostRefresh
    \/ PostRevoke
    \/ PostChirps
    \/ DeleteChirps
    \/ Tick

Spec == Init /\ [][Next]_vars

\* the server of main.go
NextMain ==
    \/ GetApp
    \/ PostReset
    \/ PostUsers
    \/ PostLoginExpiresIn
    \/ PostChirps
    \/ Tick

SpecMain == Init /\ [][NextMain]_vars

\* the server without authentication
NextLegacy ==
    \/ GetApp
    \/ PostReset
    \/ PostUsersEmailOnly
    \/ PostChirpsUserIdInBody

SpecLegacy == Init /\ [][NextLegacy]_vars

\* the server of main.go from the start of the process
NextStart ==
    \/ main
    \/ GetApp
    \/ PostReset
    \/ PostUsers
    \/ PostLoginExpiresIn
    \/ PostChirps
    \/ Tick

SpecStart == InitStart /\ [][NextStart]_vars

\* the server with the subscription webhook
NextPolka ==
    \/ PostReset
    \/ PostUsers
    \/ PostLogin
    \/ PostPolkaWebhooks

SpecPolka == Init /\ [][NextPolka]_vars

\* the server of main.go seen from inside its /app requests: up to MaxApps of
\* them at once, and resets between their steps
NextHits ==
    \/ PostReset
    \/ \E p \in AppProcs :
           \/ appRequest(p)
           \/ appAdd(p)
           \/ appServeHTTP(p)

SpecHits == Init /\ [][NextHits]_vars

\* the server with refresh tokens seen from inside its logins: registrations
\* as before, and up to MaxLogins logins running at once, step by step
NextLogin ==
    \/ PostUsers
    \/ \E p \in Procs :
           \/ loginDecode(p)
           \/ loginGetUserByEmail(p)
           \/ loginCheckPasswordHash(p)
           \/ loginMakeJWT(p)
           \/ loginMakeRefreshToken(p)
           \/ loginCreateRefreshToken(p)
           \/ loginRespond(p)
           \/ loginReturn(p)

SpecLogin == Init /\ [][NextLogin]_vars

\* ------------------------------------------------------------ properties
\* the rows that make refresh token t resolve now: stored, not revoked, not
\* expired
Live(t) ==
    {x \in refresh_tokens : x.token = t /\ x.revoked_at = {} /\ now < x.expires_at}

\* the refresh token a request presents, if it presents one
Presented(h) == GetBearerToken(h).err = ""

\* the store a handler left is the store it found
StoreUntouched(r) ==
    /\ r.users = users
    /\ r.refresh_tokens = refresh_tokens
    /\ r.chirps = chirps

\* every payload of the body is an error message: no token, no user, no chirp
OnlyErrors(w) == \A i \in 1..Len(w.body) : w.body[i].kind = "error"

\* C1: in every reachable state and for every token string, a refresh succeeds
\* only if the token is stored with revoked_at null and now < expires_at, and,
\* when no call inside the request fails, it succeeds whenever the token is
\* such; the access token of a successful refresh validates to the user_id of
\* the token's row.
C1_RefreshIffLive ==
    \A h \in RefreshHeaders, f \in RefreshFaults :
        LET r == refreshHandler(h, f)
            live == IF Presented(h) THEN Live(h.tok) ELSE {}
        IN /\ r.w.status = 200 => live # {}
           /\ (f = {} /\ live # {}) => r.w.status = 200
           /\ r.w.status = 200 =>
                 /\ Len(r.w.body) = 1
                 /\ \A x \in live :
                        ValidateJWT(r.w.body[1].token, jwtSecret, now)
                            = [err |-> "", sub |-> x.user_id]

\* a live token of one user refreshes while a token of another user, revoked
\* or expired, is in the store
C1_Witness ==
    \E x \in refresh_tokens, y \in refresh_tokens :
        /\ Live(x.token) # {}
        /\ Live(y.token) = {}
        /\ x.user_id # y.user_id
        /\ refreshHandler(Bearer(x.token), {}).w.status = 200
        /\ refreshHandler(Bearer(y.token), {}).w.status = 401

\* C2: once a revocation of a refresh token has been acknowledged, every
\* later refresh with that token is answered 401 and carries no access token,
\* at every later time and whatever other requests were served in between,
\* also while the token's 60 days have not passed.
C2_RevokedNeverRefreshes ==
    \A t \in revoked, f \in RefreshFaults :
        LET r == refreshHandler(Bearer(t), f)
        IN /\ r.w.status = 401
           /\ TokensIn(r.w.body) = {}

\* a token revoked at an earlier time, not yet expired, with a later login's
\* live token beside it
C2_Witness ==
    \E x \in refresh_tokens, y \in refresh_tokens :
        /\ x.token \in revoked
        /\ now < x.expires_at
        /\ \E at \in x.revoked_at : at < now
        /\ Live(y.token) # {}
        /\ refreshHandler(Bearer(x.token), {}).w.status = 401

\* C3: an access token handed out by login or refresh authorizes its subject
\* at every time before its expiry, whatever has happened to the store since:
\* the chirp route never answers it 401 and stores a chirp only for the
\* token's subject.
C3_AccessTokenOutlivesSession ==
    \A t \in issued :
        now < t.exp =>
            \A b \in Bodies, f \in ChirpFaults :
                LET r == createChirpHandler(Bearer(t), b, f)
                IN /\ r.w.status # 401
                   /\ \A c \in r.chirps \ chirps : c.user_id = t.sub

\* an unexpired access token whose user has refresh tokens, all revoked, and
\* still posts a chirp
C3_Witness ==
    \E t \in issued :
        /\ now < t.exp
        /\ \E x \in refresh_tokens : x.user_id = t.sub
        /\ \A x \in refresh_tokens : x.user_id = t.sub => x.token \in revoked
        /\ createChirpHandler(Bearer(t), <<"Kerfuffle", "hi">>, {}).w.status = 201

\* C4: the delete route removes a chirp only for a valid access token whose
\* subject is the chirp's owner, and then only that chirp; for a valid token
\* of another subject it answers 403 and leaves the store as it was.
C4_DeleteOnlyByOwner ==
    \A h \in AccessHeaders, id \in 0..MaxChirps, f \in DeleteFaults :
        LET r == deleteChirpHandler(h, id, f)
            auth == ValidateJWT(GetBearerToken(h).tok, jwtSecret, now)
        IN /\ r.users = users /\ r.refresh_tokens = refresh_tokens
           /\ r.chirps \subseteq chirps
           /\ \A c \in chirps \ r.chirps :
                  /\ Presented(h) /\ auth.err = ""
                  /\ c.id = id
                  /\ c.user_id = auth.sub
           /\ \A c \in chirps :
                  (/\ Presented(h) /\ auth.err = ""
                   /\ c.id = id /\ c.user_id # auth.sub
                   /\ "lookup" \notin f)
                  => r.w.status = 403 /\ StoreUntouched(r)

\* a chirp of one user and an unexpired access token of another, turned down
C4_Witness ==
    \E c \in chirps, t \in issued :
        /\ now < t.exp
        /\ t.sub # c.user_id
        /\ \E u \in users : u.id = t.sub
        /\ deleteChirpHandler(Bearer(t), c.id, {}).w.status = 403

\* what C5 asks of a response r to a chirp mutation under header h
AuthorizedMutation(h, r) ==
    LET auth == ValidateJWT(GetBearerToken(h).tok, jwtSecret, now)
    IN /\ (~Presented(h) \/ auth.err # "") => r.w.status = 401 /\ StoreUntouched(r)
       /\ \A c \in r.chirps \ chirps : c.user_id = auth.sub

\* C5: every chirp route that changes the store does so only after the
\* request's bearer access token validated: a missing, malformed, badly signed
\* or expired token is answered 401 with the store unchanged, and a created
\* chirp belongs to the token's subject, never to a user_id of the request
\* body (a request that carries only a body changes nothing).
C5_ChirpMutationsAuthorized ==
    /\ \A h \in AccessHeaders, b \in Bodies, f \in ChirpFaults :
           AuthorizedMutation(h, createChirpHandler(h, b, f))
    /\ \A h \in AccessHeaders, id \in 0..MaxChirps, f \in DeleteFaults :
           AuthorizedMutation(h, deleteChirpHandler(h, id, f))
    /\ \A b \in Bodies, u \in 0..MaxUsers, f \in ChirpFaults :
           StoreUntouched(createChirpHandlerUserIdInBody(b, u, f))

\* what C6 asks of the responses a and b to a login with an unknown email and
\* to a login with a wrong password
SameRefusal(a, b, f) ==
    /\ a.w = b.w
    /\ "decode" \notin f =>
           a.w = respondWithError(W0, 401, "Incorrect email or password")
    /\ OnlyErrors(a.w)
    /\ StoreUntouched(a) /\ StoreUntouched(b)
    /\ a.nextId = nextId /\ b.nextId = nextId

\* C6: a login with an email no user has and a login with a user's email and
\* a wrong password get the same response, 401 with the same message; neither
\* response carries a token and neither request stores a refresh token.
C6_InvalidCredentialsAlike ==
    \A e1 \in Emails, e2 \in Emails, p1 \in Passwords, p2 \in Passwords :
        (/\ GetUserByEmail(e1, FALSE) = {}
         /\ \E u \in GetUserByEmail(e2, FALSE) :
                ~CheckPasswordHash(p2, u.hashed_password))
        => /\ \A f \in LoginFaults :
                  SameRefusal(loginHandler(e1, p1, f), loginHandler(e2, p2, f), f)
           /\ \A f \in LoginExpiresInFaults, x \in ExpiresInSecondsInputs :
                  SameRefusal(loginHandlerExpiresIn(e1, p1, x, f),
                              loginHandlerExpiresIn(e2, p2, x, f), f)

\* one email registered and logged in before, the other unknown, both refused
C6_Witness ==
    \E e1 \in Emails, e2 \in Emails, p2 \in Passwords :
        /\ GetUserByEmail(e1, FALSE) = {}
        /\ \E u \in GetUserByEmail(e2, FALSE) :
               /\ ~CheckPasswordHash(p2, u.hashed_password)
               /\ \E x \in refresh_tokens : x.user_id = u.id
        /\ loginHandler(e1, p2, {}).w.status = 401
        /\ loginHandler(e2, p2, {}).w = loginHandler(e1, p2, {}).w

\* what C7 asks of the response r to a login of email
IssuesAndPersists(email, r) ==
    r.w.status = 200 =>
        /\ Len(r.w.body) = 1
        /\ \E u \in users :
               /\ u.email = email
               /\ r.w.body[1].id = u.id
               /\ ValidateJWT(r.w.body[1].token, jwtSecret, now)
                      = [err |-> "", sub |-> u.id]
               /\ r.refresh_tokens \ refresh_tokens =
                      {[token |-> r.w.body[1].refresh_token, user_id |-> u.id,
                        expires_at |-> now + RefreshWindow, revoked_at |-> {}]}
        /\ refresh_tokens \subseteq r.refresh_tokens

\* C7: every login answered 200 carries one access token of the user who
\* logged in and one refresh token, and has stored exactly one new
\* refresh_tokens row: that token, that user, expires_at = now + 60 days,
\* revoked_at null.
C7_LoginIssuesAndPersists ==
    /\ \A e \in Emails, p \in Passwords, f \in LoginFaults :
           IssuesAndPersists(e, loginHandler(e, p, f))
    /\ \A e \in Emails, p \in Passwords, x \in ExpiresInSecondsInputs,
          f \in LoginExpiresInFaults :
           IssuesAndPersists(e, loginHandlerExpiresIn(e, p, x, f))

\* the refresh token a login with right credentials tries to store does not
\* get stored
PersistFails(email, password, f) ==
    /\ "decode" \notin f
    /\ \E u \in GetUserByEmail(email, "lookup" \in f) :
           /\ CheckPasswordHash(password, u.hashed_password)
           /\ CreateRefreshToken(MakeRefreshToken(nextId.token, "rand" \in f).tok,
                                 u.id, now + RefreshWindow, "write" \in f).err

\* C8: when storing the refresh token fails, the login is answered 500, the
\* response carries neither the access token nor a refresh token, and the
\* refresh_tokens table is as it was.
C8_PersistFailureFailsLogin ==
    \A e \in Emails, p \in Passwords, f \in LoginFaults :
        PersistFails(e, p, f) =>
            LET r == loginHandler(e, p, f)
            IN /\ r.w.status = 500
               /\ OnlyErrors(r.w)
               /\ StoreUntouched(r)

\* a user who logged in before and whose next login cannot store its token
C8_Witness ==
    \E u \in users, p \in Passwords :
        /\ \E x \in refresh_tokens : x.user_id = u.id
        /\ PersistFails(u.email, p, {"write"})
        /\ loginHandler(u.email, p, {"write"}).w
               = respondWithError(W0, 500, "Couldn't save refresh token")

\* C9: a refresh with a token that is not stored, with a revoked token and
\* with an expired token get one and the same response, 401 with one message,
\* and leave the store as it was.
C9_RefreshFailuresAlike ==
    \A h \in RefreshHeaders, f \in RefreshFaults :
        (Presented(h) /\ Live(h.tok) = {}) =>
            refreshHandler(h, f) =
                Res(respondWithError(W0, 401, "Couldn't get user for refresh token"))

\* an unknown token, a revoked token still in its 60 days and an expired
\* token never revoked, all answered alike
C9_Witness ==
    \E x \in refresh_tokens, y \in refresh_tokens :
        /\ x.revoked_at # {} /\ now < x.expires_at
        /\ y.revoked_at = {} /\ now >= y.expires_at
        /\ refreshHandler(Bearer(x.token), {}).w = refreshHandler(Bearer(y.token), {}).w
        /\ refreshHandler(Bearer(GarbageTok), {}).w = refreshHandler(Bearer(y.token), {}).w
        /\ refreshHandler(Bearer(y.token), {}).w.status = 401

\* the lifetimes a token is issued with, and instants around its expiry
Lifetimes == {x \in ExpiresInSecondsInputs : x > 0}
Around(t) == {t.iat, t.exp - 1, t.exp, t.exp + 1}

\* what C10 asks of a token t issued for subject s with lifetime ttl
HonouredForTTL(t, s, ttl) ==
    /\ t.exp = t.iat + ttl
    /\ \A at \in Around(t) \cup {now}, k \in Secrets :
           ValidateJWT(t, k, at) =
               IF k # jwtSecret THEN [err |-> "BadSignature", sub |-> 0]
               ELSE IF at < t.iat + ttl THEN [err |-> "", sub |-> s]
               ELSE [err |-> "Expired", sub |-> 0]

\* C10: an access token issued for subject s with lifetime ttl > 0 validates
\* under the issuing secret to s at every time before issued-at + ttl and
\* fails as expired at every time from issued-at + ttl on; under another
\* secret it fails at every time.  So for the tokens the login route of
\* main.go has handed out, and the chirp route answers them accordingly.
C10_ValidateUntilExpiry ==
    /\ \A s \in 1..MaxUsers, ttl \in Lifetimes :
           HonouredForTTL(MakeJWT(s, jwtSecret, ttl, now, FALSE).tok, s, ttl)
    /\ \A t \in issued :
           /\ t.exp - t.iat \in Lifetimes
           /\ HonouredForTTL(t, t.sub, t.exp - t.iat)
           /\ \A b \in Bodies :
                  (createChirpHandler(Bearer(t), b, {}).w.status = 401) <=> (now >= t.exp)
    /\ \A t \in Forged, b \in Bodies :
           createChirpHandler(Bearer(t), b, {}).w.status = 401

\* the clock stands at the very expiry of one issued token while another
\* issued token has time left
C10_Witness ==
    \E t1 \in issued, t2 \in issued :
        /\ now = t1.exp
        /\ now < t2.exp
        /\ createChirpHandler(Bearer(t1), <<"Kerfuffle", "hi">>, {}).w.status = 401
        /\ createChirpHandler(Bearer(t2), <<"Kerfuffle", "hi">>, {}).w.status # 401

\* the lifetime C11 names for a requested expires_in_seconds x
ClampedLifetime(x) == IF x > 0 /\ x <= Hour THEN x ELSE Hour

\* the access tokens of response r were issued now and live for ttl seconds
IssuedFor(r, ttl) ==
    \A t \in TokensIn(r.w.body) : t.iat = now /\ t.exp - t.iat = ttl

\* C11: the access token of a login of main.go lives for the requested
\* expires_in_seconds when that lies in (0, 3600] and for 3600 seconds for
\* every other request (0 or absent, negative, above 3600); the access token
\* of a login of the server with refresh tokens lives for 3600 seconds
\* whatever the request asks; no access token handed out lives longer than
\* one hour.
C11_LifetimeClamped ==
    /\ \A e \in Emails, p \in Passwords, x \in ExpiresInSecondsInputs,
          f \in LoginExpiresInFaults :
           IssuedFor(loginHandlerExpiresIn(e, p, x, f), ClampedLifetime(x))
    /\ \A e \in Emails, p \in Passwords, x \in ExpiresInSecondsInputs,
          f \in LoginFaults :
           IssuedFor(loginHandlerDecode(e, p, x, f), Hour)
    /\ \A t \in issued : t.exp - t.iat > 0 /\ t.exp - t.iat <= Hour

\* C11 as the spec states it: the login of either server honours a requested
\* lifetime in (0, 3600].
C11_AsClaimed ==
    /\ \A e \in Emails, p \in Passwords, x \in ExpiresInSecondsInputs,
          f \in LoginExpiresInFaults :
           IssuedFor(loginHandlerExpiresIn(e, p, x, f), ClampedLifetime(x))
    /\ \A e \in Emails, p \in Passwords, x \in ExpiresInSecondsInputs,
          f \in LoginFaults :
           IssuedFor(loginHandlerDecode(e, p, x, f), ClampedLifetime(x))
    /\ \A t \in issued : t.exp - t.iat > 0 /\ t.exp - t.iat <= Hour

\* a token of half an hour and a token of one hour have been handed out, and
\* a login asking for more than an hour gets a token
C11_Witness ==
    /\ \E t \in issued : t.exp - t.iat = Hour \div 2
    /\ \E t \in issued : t.exp - t.iat = Hour
    /\ \E e \in Emails, p \in Passwords :
           TokensIn(loginHandlerExpiresIn(e, p, Hour + 1, {}).w.body) # {}

\* C12: a refresh, answered 200 or not, leaves every row of refresh_tokens as
\* it was (token, user_id, expires_at, revoked_at), draws no new token and
\* touches no other table: the token presented is neither rotated nor
\* extended and refreshes again.
C12_RefreshLeavesStore ==
    \A h \in RefreshHeaders, f \in RefreshFaults :
        LET r == refreshHandler(h, f)
        IN /\ StoreUntouched(r)
           /\ r.nextId = nextId
           /\ r.fileserverHits = fileserverHits

\* a user with a single refresh token holds two access tokens issued at
\* different times, so the later one came from a refresh at a later time; the
\* token's row still expires 60 days after the login, and it refreshes again
C12_Witness ==
    \E t1 \in issued, t2 \in issued, x \in refresh_tokens :
        /\ t1.sub = t2.sub /\ t1.iat < t2.iat
        /\ x.user_id = t1.sub
        /\ \A y \in refresh_tokens : y.user_id = t1.sub => y = x
        /\ nextId.token = 2
        /\ x.expires_at = t1.iat + RefreshWindow
        /\ x.revoked_at = {}
        /\ refreshHandler(Bearer(x.token), {}).w.status = 200

\* what C13 asks of the response r to a revocation presenting token t
RevokesOrNotFound(t, r) ==
    IF \E x \in refresh_tokens : x.token = t
    THEN /\ r.w = respondWithJSON(W0, 204, NullP)
         /\ r.refresh_tokens =
                {IF x.token = t THEN [x EXCEPT !.revoked_at = {now}] ELSE x :
                 x \in refresh_tokens}
         /\ r.users = users /\ r.chirps = chirps
    ELSE /\ r.w.status = 404
         /\ OnlyErrors(r.w)
         /\ StoreUntouched(r)

\* C13: a revocation presenting a stored token sets that row's revoked_at to
\* the current time and is answered 204 without content; a revocation
\* presenting a token that is not stored is answered as not found (404) and
\* changes nothing.
C13_RevokeOrNotFound ==
    \A h \in RefreshHeaders :
        Presented(h) => RevokesOrNotFound(h.tok, revokeHandler(h, {}))

\* C14: a revocation presenting a token that is already revoked is answered
\* 204 again and leaves the token revoked and every other row as it was; a
\* token revoked once or several times does not refresh.
C14_RevokeIdempotent ==
    \A x \in refresh_tokens :
        x.revoked_at # {} =>
            LET r == revokeHandler(Bearer(x.token), {})
            IN /\ r.w = respondWithJSON(W0, 204, NullP)
               /\ \E y \in r.refresh_tokens :
                      /\ y.revoked_at # {}
                      /\ [y EXCEPT !.revoked_at = {}] = [x EXCEPT !.revoked_at = {}]
               /\ r.refresh_tokens \ {y \in r.refresh_tokens : y.token = x.token}
                      = refresh_tokens \ {x}
               /\ r.users = users /\ r.chirps = chirps
               /\ \A f \in RefreshFaults :
                      refreshHandler(Bearer(x.token), f).w.status = 401

\* a token revoked at an earlier time is revoked once more now, beside a
\* live token
C14_Witness ==
    \E x \in refresh_tokens, y \in refresh_tokens :
        /\ x.token \in revoked
        /\ \E at \in x.revoked_at : at < now
        /\ now < x.expires_at
        /\ Live(y.token) # {}
        /\ revokeHandler(Bearer(x.token), {}).w.status = 204
        /\ [x EXCEPT !.revoked_at = {now}] \in revokeHandler(Bearer(x.token), {}).refresh_tokens

\* a login that met no failure and has written its response
Completed(p) == login[p].pc = "return" /\ login[p].f = {} /\ login[p].user # {}

\* the refresh token of p's login is a stored row of p's user and resolves to it
StoredFor(p) ==
    /\ \E x \in refresh_tokens :
           /\ x.token = login[p].refreshToken
           /\ \A u \in login[p].user : x.user_id = u.id
           /\ x.revoked_at = {}
    /\ GetUserByRefreshToken(login[p].refreshToken, now, FALSE) = login[p].user

\* C15: whatever the interleaving of their steps, two logins of the same user
\* with the right password that met no failure both answer 200, their refresh
\* tokens differ, and both tokens are stored rows that resolve to that user.
C15_ConcurrentLoginsBothStored ==
    \A p \in Procs, q \in Procs :
        (/\ p # q
         /\ Completed(p) /\ Completed(q)
         /\ login[p].user = login[q].user
         /\ \A u \in login[p].user :
                /\ CheckPasswordHash(login[p].password, u.hashed_password)
                /\ CheckPasswordHash(login[q].password, u.hashed_password))
        => /\ login[p].w.status = 200 /\ login[q].w.status = 200
           /\ login[p].refreshToken # login[q].refreshToken
           /\ login[p].refreshToken.kind = "opaque"
           /\ StoredFor(p) /\ StoredFor(q)

\* two logins of one user have both answered 200
C15_Witness ==
    /\ Completed(1) /\ Completed(2)
    /\ login[1].user = login[2].user
    /\ login[1].w.status = 200 /\ login[2].w.status = 200

\* the rows of the table rows that resolve at the current time
Resolvable(rows) == {x \in rows : x.revoked_at = {} /\ now < x.expires_at}

\* rows is the table refresh_tokens with at most one row more
OnlyAdds(rows) ==
    /\ refresh_tokens \subseteq rows
    /\ Cardinality(rows \ refresh_tokens) <= 1

\* rows is the table refresh_tokens but for revoked_at of the row of token t,
\* which is set if it differs
OnlySetsRevokedAt(t, rows) ==
    /\ {x.token : x \in rows} = {x.token : x \in refresh_tokens}
    /\ Cardinality(rows) = Cardinality(refresh_tokens)
    /\ \A x \in refresh_tokens :
           IF x.token = t
           THEN \E y \in rows :
                    /\ [y EXCEPT !.revoked_at = {}] = [x EXCEPT !.revoked_at = {}]
                    /\ y # x => y.revoked_at # {}
           ELSE /\ x \in rows
                /\ x \in Resolvable(refresh_tokens) => x \in Resolvable(rows)

\* C16: of the operations of the authentication core, registration, refresh
\* and the chirp operations leave the table refresh_tokens as it is, a login
\* only adds a row to it, and a revocation deletes no row and changes nothing
\* but revoked_at of the row of the presented token: every other row, of the
\* same user or of another, is unchanged and resolves as before.
C16_OnlyRevokeChangesRows ==
    /\ \A h \in RefreshHeaders, f \in RevokeFaults :
           OnlySetsRevokedAt(h.tok, revokeHandler(h, f).refresh_tokens)
    /\ \A e \in Emails, p \in Passwords, f \in LoginFaults :
           OnlyAdds(loginHandler(e, p, f).refresh_tokens)
    /\ \A h \in RefreshHeaders, f \in RefreshFaults :
           refreshHandler(h, f).refresh_tokens = refresh_tokens
    /\ \A e \in Emails, p \in Registered, s \in Salts, f \in CreateUserFaults :
           createUserHandler(e, p, s, f).refresh_tokens = refresh_tokens
    /\ \A h \in AccessHeaders, b \in Bodies, f \in ChirpFaults :
           createChirpHandler(h, b, f).refresh_tokens = refresh_tokens
    /\ \A h \in AccessHeaders, c \in 0..MaxChirps, f \in DeleteFaults :
           deleteChirpHandler(h, c, f).refresh_tokens = refresh_tokens

\* one user has two live sessions and the revocation of one is answered 204
C16_Witness ==
    \E x \in Resolvable(refresh_tokens), y \in Resolvable(refresh_tokens) :
        /\ x # y
        /\ x.user_id = y.user_id
        /\ revokeHandler(Bearer(x.token), {}).w.status = 204
        /\ y \in Resolvable(revokeHandler(Bearer(x.token), {}).refresh_tokens)
        /\ x \notin revokeHandler(Bearer(x.token), {}).refresh_tokens

\* the response reports an internal failure: status 500 and error messages only
Internal(w) == w.status = 500 /\ OnlyErrors(w)

\* C17: when the store call fails during the user lookup of a login with the
\* right credentials, or during the token lookup of a refresh with a live
\* token, the response is an internal failure (500), not the 401 of invalid
\* credentials or of an unresolvable token, and the store is left as it was.
C17_LookupFailureInternal ==
    /\ \A u \in users, p \in Passwords :
           CheckPasswordHash(p, u.hashed_password) =>
               LET r == loginHandler(u.email, p, {"lookup"})
               IN Internal(r.w) /\ StoreUntouched(r)
    /\ \A x \in Resolvable(refresh_tokens) :
           LET r == refreshHandler(Bearer(x.token), {"lookup"})
           IN Internal(r.w) /\ StoreUntouched(r)

\* the password the user u registered with
RegisteredWith(u, p) == \E s \in Salts : u.hashed_password = HashPassword(p, s)

\* the response is the 401 of invalid credentials and carries nothing else
InvalidCredentials(w) == w = respondWithError(W0, 401, "Incorrect email or password")

\* C18: a registration answered 201 stores a user whose hash verifies the
\* registered password and no other; and in every state reached by later
\* logins, refreshes and revocations, a login of a stored user with the
\* password of the registration is answered 200 for that user, while a login
\* with any other password is answered with invalid credentials and changes
\* nothing.  Both logins of the repository behave so.
C18_LoginAfterRegister ==
    /\ \A e \in Emails, p \in Passwords, s \in Salts, f \in CreateUserFaults :
           LET r == createUserHandler(e, p, s, f)
           IN r.w.status = 201 =>
                  \E u \in r.users :
                      /\ u.email = e
                      /\ RegisteredWith(u, p)
                      /\ \A p2 \in Passwords : CheckPasswordHash(p2, u.hashed_password) <=> p2 = p
    /\ \A u \in users, p \in Passwords :
           RegisteredWith(u, p) =>
               /\ LET r == loginHandler(u.email, p, {})
                  IN /\ r.w.status = 200
                     /\ r.w.body[1].kind = "login" /\ r.w.body[1].id = u.id
               /\ \A x \in ExpiresInSecondsInputs :
                      LET r == loginHandlerExpiresIn(u.email, p, x, {})
                      IN /\ r.w.status = 200
                         /\ r.w.body[1].kind = "login" /\ r.w.body[1].id = u.id
               /\ \A p2 \in Passwords \ {p} :
                      /\ \A f \in LoginFaults :
                             "decode" \notin f =>
                                 LET r == loginHandler(u.email, p2, f)
                                 IN InvalidCredentials(r.w) /\ StoreUntouched(r)
                      /\ \A x \in ExpiresInSecondsInputs, f \in LoginExpiresInFaults :
                             "decode" \notin f =>
                                 LET r == loginHandlerExpiresIn(u.email, p2, x, f)
                                 IN InvalidCredentials(r.w) /\ StoreUntouched(r)

\* a registered user holds an access token and a revoked session, and logs in again
C18_Witness ==
    \E u \in users :
        /\ RegisteredWith(u, "pw1")
        /\ \E x \in refresh_tokens : x.user_id = u.id /\ x.token \in revoked
        /\ \E t \in issued : t.sub = u.id
        /\ loginHandler(u.email, "pw1", {}).w.status = 200
        /\ loginHandler(u.email, "pw2", {}).w.status = 401

\* the login of goroutine p has verified its credential
Verified(p) ==
    /\ login[p].user # {}
    /\ \A u \in login[p].user : CheckPasswordHash(login[p].password, u.hashed_password)

\* the login of goroutine p has issued its access token
AccessTokenIssued(p) == login[p].token.kind = "jwt"

\* this step is the persist of the login of goroutine p
Persists(p) ==
    /\ login[p].pc = "CreateRefreshToken"
    /\ login'[p].pc = "respond"
    /\ refresh_tokens' \ refresh_tokens =
           {x \in refresh_tokens' : x.token = login[p].refreshToken}

\* C19: every step of a login that writes to the store is the persist of the
\* refresh token of a login that has verified its credential and has issued
\* its access token before.
C19_VerifyIssuePersist ==
    [][refresh_tokens' # refresh_tokens =>
           \E p \in Procs : Persists(p) /\ Verified(p) /\ AccessTokenIssued(p)]_vars

\* the fields of the payload x that describe a user are id and email of a
\* user of the table rows, and x has no field beyond those of a payload
OnlyIdAndEmail(x, rows) ==
    /\ DOMAIN x = DOMAIN NullP
    /\ \E u \in rows :
           [x EXCEPT !.token = EmptyTok, !.refresh_token = EmptyTok] =
               Payload(x.kind, "", u.id, u.email, EmptyTok, EmptyTok, <<>>, 0)

\* no payload of the response w shows more of a user than id and email, and a
\* token it carries is an access token of that user or an opaque refresh token
NoCredentialHash(w, rows) ==
    \A i \in 1..Len(w.body) :
        LET x == w.body[i]
        IN /\ "hashed_password" \notin DOMAIN x
           /\ x.kind \in {"error", "user", "login"}
           /\ x.kind = "error" => x = ErrorP(x.msg)
           /\ x.kind = "user" => OnlyIdAndEmail(x, rows) /\ x.token = EmptyTok
           /\ x.kind = "login" =>
                  /\ OnlyIdAndEmail(x, rows)
                  /\ x.token.kind = "jwt" => x.token.sub = x.id
                  /\ x.token.kind \in {"jwt", "empty"}
                  /\ x.refresh_token.kind \in {"opaque", "empty"}

\* C20: whatever the request and the failure met, the response of a
\* registration and of a login (of either server) carries error messages or
\* the id and email of the user, and for a login the tokens: no payload has a
\* field for, or a value of, the stored hash of the password.
C20_NoCredentialHashInResponse ==
    /\ \A e \in Emails, p \in Passwords, s \in Salts, f \in CreateUserFaults :
           LET r == createUserHandler(e, p, s, f) IN NoCredentialHash(r.w, r.users)
    /\ \A e \in Emails, p \in Passwords, x \in ExpiresInSecondsInputs,
          f \in LoginExpiresInFaults :
           LET r == loginHandlerExpiresIn(e, p, x, f) IN NoCredentialHash(r.w, r.users)
    /\ \A e \in Emails, p \in Passwords, f \in LoginFaults :
           LET r == loginHandler(e, p, f) IN NoCredentialHash(r.w, r.users)

\* a user with a stored hash is registered, a registration of another email
\* is answered 201 and a login of the user 200, each with a user payload
C20_Witness ==
    \E u \in users, e \in Emails, x \in ExpiresInSecondsInputs :
        /\ u.hashed_password = HashPassword("pw1", "s")
        /\ createUserHandler(e, "pw2", "s", {}).w.status = 201
        /\ createUserHandler(e, "pw2", "s", {}).w.body[1].kind = "user"
        /\ loginHandlerExpiresIn(u.email, "pw1", x, {}).w.status = 200
        /\ loginHandlerExpiresIn(u.email, "pw1", x, {}).w.body[1].email = u.email

\* no request has been handled: the store is empty and no token was issued
NothingHandled ==
    /\ users = {} /\ refresh_tokens = {} /\ chirps = {}
    /\ issued = {} /\ fileserverHits = 0
    /\ nextId = [user |-> 1, token |-> 1, chirp |-> 1]

\* C21: the process serves only with a non-empty signing secret, the one of
\* its environment; with JWT_SECRET missing it never serves and handles no
\* request; and no step taken while serving changes the secret.
C21_NeverServesWithoutSecret ==
    /\ [](/\ phase = "serving" => jwtSecret # "" /\ jwtSecret = env.JWT_SECRET
          /\ env.JWT_SECRET = "" => phase # "serving" /\ NothingHandled)
    /\ [][phase = "serving" => jwtSecret' = jwtSecret]_vars

\* the environment has PLATFORM but no JWT_SECRET, and main has exited
C21_Witness ==
    /\ env.JWT_SECRET = "" /\ env.PLATFORM # ""
    /\ phase = "exited"

\* C22: on a platform other than "dev" a reset, whatever failure it meets,
\* is answered 403 and changes neither the tables nor the hit counter.
C22_ResetForbiddenOffDev ==
    platform # "dev" =>
        \A f \in RevokeFaults :
            LET r == resetMetricHandler(f)
            IN /\ r.w.status = 403
               /\ StoreUntouched(r)
               /\ r.fileserverHits = fileserverHits

\* the handler reported a failure and did nothing further: one payload, an
\* error message, and the store as it was
FailedOnce(r) ==
    /\ Len(r.w.body) = 1
    /\ OnlyErrors(r.w)
    /\ r.w.status >= 400
    /\ StoreUntouched(r)

\* C23: a login with the right credentials in which minting the access token
\* or generating the refresh token fails, and a refresh with a live token in
\* which minting the access token fails, write exactly one response, an error,
\* with no login or token payload after it, and store no refresh token.
C23_OneOutcomeOnTokenFailure ==
    /\ \A u \in users, p \in Passwords, f \in {{"jwt"}, {"rand"}} :
           CheckPasswordHash(p, u.hashed_password) =>
               FailedOnce(loginHandler(u.email, p, f))
    /\ \A u \in users, p \in Passwords, x \in ExpiresInSecondsInputs :
           CheckPasswordHash(p, u.hashed_password) =>
               FailedOnce(loginHandlerExpiresIn(u.email, p, x, {"jwt"}))
    /\ \A x \in Resolvable(refresh_tokens) :
           FailedOnce(refreshHandler(Bearer(x.token), {"jwt"}))

\* the ids of the stored users
UserIds == {u.id : u \in users}

\* the access tokens handed out that still validate but whose subject is no
\* stored user
OrphanTokens ==
    {t \in issued : ValidateJWT(t, jwtSecret, now).err = "" /\ t.sub \notin UserIds}

\* C24: every stored refresh token and every stored chirp has the id of a
\* stored user; a refresh answered 200 issues a token for a stored user; and
\* a chirp creation with a valid access token of a user deleted since is
\* answered 500 and stores nothing.
C24_RowsReferenceUsers ==
    /\ \A x \in refresh_tokens : x.user_id \in UserIds
    /\ \A c \in chirps : c.user_id \in UserIds
    /\ \A h \in RefreshHeaders, f \in RefreshFaults :
           LET r == refreshHandler(h, f)
           IN r.w.status = 200 =>
                  \A i \in 1..Len(r.w.body) :
                      r.w.body[i].token.kind = "jwt" => r.w.body[i].token.sub \in UserIds
    /\ \A t \in OrphanTokens, b \in Bodies, f \in ChirpFaults :
           LET r == createChirpHandler(Bearer(t), b, f)
           IN r.w.status = 500 /\ OnlyErrors(r.w) /\ StoreUntouched(r)

\* the users were deleted while an access token of one of them is still valid,
\* and a chirp creation with a good body under that token is turned down
C24_Witness ==
    \E t \in OrphanTokens :
        /\ refresh_tokens = {} /\ chirps = {}
        /\ createChirpHandler(Bearer(t), <<"hi">>, {}).w
               = respondWithError(W0, 500, "Couldn't store user")

\* the webhook left users, tokens, chirps and memberships as they were
MembershipUntouched(r) == StoreUntouched(r) /\ r.chirpy_red = chirpy_red

\* C25: the webhook changes a membership only for a request with the
\* configured key and the event user.upgraded, and then only that of the
\* user named; without the key or with another key it answers 401, to another
\* event 204 without content, for an unknown user 404, and in these three
\* cases users and memberships stay as they were.
C25_WebhookGated ==
    \A h \in PolkaHeaders, ev \in Events, id \in 1..MaxUsers + 1, f \in PolkaFaults :
        LET r == addUserSubscribtionHandler(h, ev, id, f)
            keyed == h = ApiKey(polkaKey)
        IN /\ r.chirpy_red # chirpy_red =>
                  /\ keyed /\ ev = "user.upgraded"
                  /\ r.chirpy_red = chirpy_red \cup {id}
                  /\ StoreUntouched(r)
           /\ ~keyed => r.w.status = 401 /\ OnlyErrors(r.w) /\ MembershipUntouched(r)
           /\ (keyed /\ "decode" \notin f /\ ev # "user.upgraded") =>
                  r.w = respondWithJSON(W0, 204, NullP) /\ MembershipUntouched(r)
           /\ (keyed /\ f = {} /\ ev = "user.upgraded" /\ id \notin UserIds) =>
                  r.w.status = 404 /\ OnlyErrors(r.w) /\ MembershipUntouched(r)

\* one user is upgraded, another is not; for the other, a request with a
\* wrong key is answered 401 and one with the configured key upgrades
C25_Witness ==
    \E u \in users, v \in users :
        /\ u.id \in chirpy_red /\ v.id \notin chirpy_red
        /\ addUserSubscribtionHandler(ApiKey("pk2"), "user.upgraded", v.id, {}).w.status = 401
        /\ addUserSubscribtionHandler(ApiKey("pk1"), "user.downgraded", v.id, {}).w.status = 204
        /\ addUserSubscribtionHandler(ApiKey("pk1"), "user.upgraded", MaxUsers + 1, {}).w.status = 404
        /\ addUserSubscribtionHandler(ApiKey("pk1"), "user.upgraded", v.id, {}).chirpy_red
               = chirpy_red \cup {v.id}

\* the bodies a chirp creation is tried with: one or two words
MaxWords == 2
ChirpBodies == UNION {[1..n -> Words] : n \in 1..MaxWords}

\* the body ws is at most 140 long and none of its words is a banned word in
\* any letter case
CleanBody(ws) ==
    /\ BodyLen(ws) <= maxChirpLength
    /\ \A i \in 1..Len(ws) : ToLower(ws[i]) \notin badWords

\* cleaned is the body ws with each banned word, in any letter case, replaced
\* by "****" and every other word kept
Censored(ws, cleaned) ==
    /\ Len(cleaned) = Len(ws)
    /\ \A i \in 1..Len(ws) :
           cleaned[i] = IF ToLower(ws[i]) \in badWords THEN "****" ELSE ws[i]

\* C26: every stored chirp has a body of at most 140 characters without a
\* banned word in any letter case; a creation with a body longer than 140 is
\* answered with an error and stores nothing; and a creation that stores a
\* chirp stores the body with each banned word replaced by "****".
C26_StoredBodiesClean ==
    /\ \A c \in chirps : CleanBody(c.body)
    /\ \A h \in AccessHeaders, b \in ChirpBodies, f \in ChirpFaults :
           LET r == createChirpHandler(h, b, f)
           IN /\ BodyLen(b) > maxChirpLength =>
                     r.w.status >= 400 /\ OnlyErrors(r.w) /\ StoreUntouched(r)
              /\ \A c \in r.chirps \ chirps : CleanBody(c.body) /\ Censored(b, c.body)
              /\ (r.w.status = 201) = (r.chirps # chirps)

\* a chirp written with a banned word is stored censored, and for its author
\* a body of exactly 140 is accepted and one of 141 is refused
C26_Witness ==
    /\ \E c \in chirps : c.body = <<"****", "hi">>
    /\ \E t \in issued :
           /\ createChirpHandler(Bearer(t), <<"full">>, {}).w.status = 201
           /\ createChirpHandler(Bearer(t), <<"long">>, {}).w
                  = respondWithError(W0, 500, "Chirp is too long")

\* C27: whatever the interleaving of the /app requests and the resets, the
\* hit counter is the number of /app requests counted since the last reset.
C27_NoLostHit == fileserverHits = handled

\* two /app requests were in the middleware at once and both are counted
C27_Witness ==
    /\ app[1].pc = "ServeHTTP" /\ app[2].pc = "ServeHTTP"
    /\ handled = 2 /\ fileserverHits = 2

====
